---------------------------- MODULE Spec2Model ----------------------------
(***************************************************************************)
(* Model of src/src/index.ts: the MovieRecommenderMCP agent.               *)
(*                                                                         *)
(* One agent instance holds the in-memory record `preferences`.  In the    *)
(* stateful variant (constructed with a DurableObjectState) the            *)
(* constructor starts initState() without awaiting it, and the tool        *)
(* handlers await storage.put after a change.  The storage serves the      *)
(* operations issued to it in the order they were issued; `ops` is the     *)
(* queue of operations in flight, each with the continuation that awaits   *)
(* it.  A handler runs without interruption up to its await, so one        *)
(* action is one synchronous run of a handler or of a continuation.        *)
(* `lastCall`, `mutated` and `rejected` are history variables: they record *)
(* what the handlers were called with, whether one of them has pushed an   *)
(* entry, and which put storage has rejected.                              *)
(*                                                                         *)
(* Spec is the agent on a storage that serves every operation.  SpecGated  *)
(* is the agent when no request reaches it before the constructor's get    *)
(* has resolved.  SpecFault adds a storage that may reject a put.          *)
(*                                                                         *)
(* Strings are TLA+ strings; toLowerCase and includes are computed         *)
(* character by character with SubSeq.                                     *)
(***************************************************************************)
EXTENDS Integers, Sequences, FiniteSets, TLC

VARIABLES
    hasState,      \* this.state is defined (stateful variant)
    preferences,   \* this.preferences
    stored,        \* the value under key "preferences" in storage
    ops,           \* storage operations in flight, oldest first
    loadState,     \* position of initState(): "none", "pending", "done"
    nInv,          \* number of tool invocations started so far
    response,      \* text of the last response returned by a tool
    lastCall,      \* history: the tool and arguments of the invocation started last
    mutated,       \* history: some invocation has pushed an entry
    rejected       \* history: the put that storage rejected last, <<>> if none

vars == <<hasState, preferences, stored, ops, loadState, nInv, response, lastCall,
          mutated, rejected>>

---------------------------------------------------------------------------
(* Bounds of the model *)

MaxInv == 3

MaxPending == 2

---------------------------------------------------------------------------
(* Strings *)

\* One character of String.prototype.toLowerCase
lowerChar(c) ==
    CASE c = "A" -> "a" [] c = "B" -> "b" [] c = "C" -> "c" [] c = "D" -> "d"
      [] c = "E" -> "e" [] c = "F" -> "f" [] c = "G" -> "g" [] c = "H" -> "h"
      [] c = "I" -> "i" [] c = "J" -> "j" [] c = "K" -> "k" [] c = "L" -> "l"
      [] c = "M" -> "m" [] c = "N" -> "n" [] c = "O" -> "o" [] c = "P" -> "p"
      [] c = "Q" -> "q" [] c = "R" -> "r" [] c = "S" -> "s" [] c = "T" -> "t"
      [] c = "U" -> "u" [] c = "V" -> "v" [] c = "W" -> "w" [] c = "X" -> "x"
      [] c = "Y" -> "y" [] c = "Z" -> "z" [] OTHER -> c

RECURSIVE toLowerCase(_)
toLowerCase(s) ==
    IF s = "" THEN ""
    ELSE lowerChar(SubSeq(s, 1, 1)) \o toLowerCase(SubSeq(s, 2, Len(s)))

\* String.prototype.includes: t occurs in s as a substring
includes(s, t) ==
    \E i \in 1..(Len(s) - Len(t) + 1) : SubSeq(s, i, i + Len(t) - 1) = t

\* Array.prototype.includes
arrayIncludes(list, x) == \E i \in 1..Len(list) : list[i] = x

RECURSIVE join(_, _)
join(list, sep) ==
    IF list = <<>> THEN ""
    ELSE IF Len(list) = 1 THEN list[1]
    ELSE list[1] \o sep \o join(Tail(list), sep)

---------------------------------------------------------------------------
(* Reference data *)

genres == <<"action", "comedy", "drama", "sci-fi", "horror">>

dislikePhrases == <<"don't like", "didn't enjoy", "dislike", "hate">>

movies == <<"godfather", "star wars", "inception", "avengers", "titanic", "matrix">>

moviesByGenre(genre) ==
    CASE genre = "action" -> <<"Die Hard", "The Dark Knight", "John Wick", "Mission Impossible">>
      [] genre = "comedy" -> <<"Superbad", "Bridesmaids", "The Hangover", "Booksmart">>
      [] genre = "drama"  -> <<"The Godfather", "The Shawshank Redemption", "Forrest Gump", "The Social Network">>
      [] genre = "sci-fi" -> <<"The Matrix", "Inception", "Interstellar", "Blade Runner 2049">>
      [] genre = "horror" -> <<"The Shining", "Get Out", "Hereditary", "A Quiet Place">>
      [] OTHER -> <<>>

defaultRecommendations ==
    <<"The Shawshank Redemption", "The Godfather", "Inception", "Parasite", "The Dark Knight">>

emptyPreferences == [genres |-> <<>>, dislikedMovies |-> <<>>]

\* The value under a storage key is <<>> when the key was never put (get
\* resolves to undefined) and <<record>> when it holds a record.
NoRecord == <<>>

Record(value) == <<value>>

NoResponse == ""

\* what the caller receives when a handler throws: the rejection of the put
\* is not caught in lines 95 and 149 and propagates out of the handler
PutRejected == "Error: storage.put rejected"

---------------------------------------------------------------------------
(* updatePreferences, lines 113-146: the synchronous scan of the query.    *)
(* An accumulator is [list, updated]: the array being pushed to and the    *)
(* preferencesUpdated flag.                                                *)

\* genreStep without the test that the genre is not yet recorded
genreStepNoCheck(acc, genre, lowerQuery) ==
    IF includes(lowerQuery, genre)
    THEN [list |-> Append(acc.list, genre), updated |-> TRUE]
    ELSE acc

\* genreStep that sets preferencesUpdated for a genre that is already recorded
genreStepFlagsAlways(acc, genre, lowerQuery) ==
    IF includes(lowerQuery, genre)
    THEN [list |-> IF arrayIncludes(acc.list, genre) THEN acc.list
                   ELSE Append(acc.list, genre),
          updated |-> TRUE]
    ELSE acc

\* body of genres.forEach, lines 124-127
genreStep(acc, genre, lowerQuery) ==
    IF includes(lowerQuery, genre) /\ ~arrayIncludes(acc.list, genre)
    THEN [list |-> Append(acc.list, genre), updated |-> TRUE]
    ELSE acc

RECURSIVE scanGenres(_, _, _)
scanGenres(words, acc, lowerQuery) ==
    IF words = <<>> THEN acc
    ELSE scanGenres(Tail(words), genreStep(acc, Head(words), lowerQuery), lowerQuery)

\* dislikeGate that lets every query through
dislikeGateOpen(lowerQuery) == TRUE

\* the gate of lines 131-132
dislikeGate(lowerQuery) ==
    \/ includes(lowerQuery, "don't like")
    \/ includes(lowerQuery, "didn't enjoy")
    \/ includes(lowerQuery, "dislike")
    \/ includes(lowerQuery, "hate")

\* movieStep without the test that the movie is not yet recorded
movieStepNoCheck(acc, movie, lowerQuery) ==
    IF includes(lowerQuery, movie)
    THEN [list |-> Append(acc.list, movie), updated |-> TRUE]
    ELSE acc

\* body of movies.forEach, lines 140-143
movieStep(acc, movie, lowerQuery) ==
    IF includes(lowerQuery, movie) /\ ~arrayIncludes(acc.list, movie)
    THEN [list |-> Append(acc.list, movie), updated |-> TRUE]
    ELSE acc

RECURSIVE scanMovies(_, _, _)
scanMovies(words, acc, lowerQuery) ==
    IF words = <<>> THEN acc
    ELSE scanMovies(Tail(words), movieStep(acc, Head(words), lowerQuery), lowerQuery)

\* lines 114-145: the record after the scan and the preferencesUpdated flag
updatePreferencesScan(query, prefs) ==
    LET lowerQuery == toLowerCase(query)
        g == scanGenres(genres, [list |-> prefs.genres, updated |-> FALSE], lowerQuery)
        d == IF dislikeGate(lowerQuery)
             THEN scanMovies(movies, [list |-> prefs.dislikedMovies, updated |-> g.updated],
                             lowerQuery)
             ELSE [list |-> prefs.dislikedMovies, updated |-> g.updated]
    IN  [preferences |-> [genres |-> g.list, dislikedMovies |-> d.list],
         preferencesUpdated |-> d.updated]

---------------------------------------------------------------------------
(* getRecommendations, lines 154-193 *)

RECURSIVE concatGenres(_)
\* lines 164-172: genres.forEach(genre => recommendations.concat(moviesByGenre[genre]))
concatGenres(gs) ==
    IF gs = <<>> THEN <<>>
    ELSE moviesByGenre(Head(gs)) \o concatGenres(Tail(gs))

\* a working list that always ends with the default list
workingListWithDefault(prefs) ==
    concatGenres(prefs.genres) \o defaultRecommendations

\* lines 164-182: the working list
workingList(prefs) ==
    IF Len(prefs.genres) > 0 THEN concatGenres(prefs.genres)
    ELSE defaultRecommendations

\* keepMovie that compares the title without lower-casing it
keepMovieCaseSensitive(movie, dislikedMovies) ==
    ~ \E i \in 1..Len(dislikedMovies) : includes(movie, dislikedMovies[i])

\* lines 185-189: the filter's predicate
keepMovie(movie, dislikedMovies) ==
    ~ \E i \in 1..Len(dislikedMovies) :
          includes(toLowerCase(movie), dislikedMovies[i])

\* lines 185-189: recommendations.filter(...)
filteredList(prefs) ==
    SelectSeq(workingList(prefs), LAMBDA movie : keepMovie(movie, prefs.dislikedMovies))

RECURSIVE unique(_, _)
\* [...new Set(list)]: the distinct elements in order of first occurrence
unique(list, seen) ==
    IF list = <<>> THEN seen
    ELSE unique(Tail(list),
                IF arrayIncludes(seen, Head(list)) THEN seen ELSE Append(seen, Head(list)))

\* Array.prototype.slice(0, n)
slice0(list, n) == SubSeq(list, 1, IF Len(list) < n THEN Len(list) ELSE n)

RecommendationLimit == 5

\* uniqueTop without the slice
uniqueAll(list) == unique(list, <<>>)

\* line 192
uniqueTop(list) == slice0(unique(list, <<>>), RecommendationLimit)

getRecommendations(prefs) == uniqueTop(filteredList(prefs))

---------------------------------------------------------------------------
(* Response texts *)

RECURSIVE numbered(_, _)
\* lines 66-68: recommendations.forEach((movie, index) => ...)
numbered(list, index) ==
    IF list = <<>> THEN ""
    ELSE ToString(index + 1) \o ". " \o Head(list) \o "\n"
         \o numbered(Tail(list), index + 1)

\* lines 56-77: the response of recommendMovies, built from this.preferences
recommendResponse(query, prefs) ==
    "Based on your request \"" \o query \o "\""
    \o (IF Len(prefs.genres) > 0
        THEN " and your interest in " \o join(prefs.genres, ", ") ELSE "")
    \o ", here are some recommendations:\n\n"
    \o numbered(getRecommendations(prefs), 0)
    \o (IF Len(prefs.dislikedMovies) > 0
        THEN "\n(I've excluded movies you didn't enjoy: "
             \o join(prefs.dislikedMovies, ", ") \o ")"
        ELSE "")

\* lines 100-107: the response of movieFeedback
feedbackResponse(movie, liked) ==
    IF liked
    THEN "Great! I'll recommend more movies like \"" \o movie \o "\" in the future."
    ELSE "I've noted that you didn't enjoy \"" \o movie
         \o "\". I'll avoid recommending similar movies."

---------------------------------------------------------------------------
(* Inputs *)

\* queries a caller sends to recommendMovies
Queries ==
    { "",
      "I love action movies",
      "Inception and Star Wars",
      "I HATE The Matrix, hate the matrix",
      "dramatic sci-fi, but I didn't enjoy Inception" }

\* titles a caller sends to movieFeedback
FeedbackMovies == { "Inception", "INCEPTION", "" }

\* records a previous instance of the session may have left in storage
InitialRecords ==
    { NoRecord,
      Record([genres |-> <<"drama">>, dislikedMovies |-> <<"godfather">>]) }

---------------------------------------------------------------------------
(* The agent *)

getOp == [op |-> "get"]

\* a put in flight: the value handed to storage.put and the handler awaiting it
putOp(value, tool, arg) == [op |-> "put", value |-> value, tool |-> tool, arg |-> arg]

pendingPuts == Len(SelectSeq(ops, LAMBDA o : o.op = "put"))

\* lines 15-32 and 202-206: the instance after construction.  With a state the
\* constructor has called initState(), which has issued the get and is
\* suspended at its await; without one (line 239) nothing is loaded.
Init ==
    /\ hasState \in BOOLEAN
    /\ preferences = emptyPreferences
    /\ stored \in (IF hasState THEN InitialRecords ELSE {NoRecord})
    /\ ops = IF hasState THEN <<getOp>> ELSE <<>>
    /\ loadState = IF hasState THEN "pending" ELSE "none"
    /\ nInv = 0
    /\ response = NoResponse
    /\ lastCall = <<>>
    /\ mutated = FALSE
    /\ rejected = <<>>

\* orDefault that takes the default whatever the get resolved to
orDefaultAlways(value) == emptyPreferences

\* line 37: get(...) || { genres: [], dislikedMovies: [] }
orDefault(value) == IF value = NoRecord THEN emptyPreferences ELSE value[1]

\* lines 35-42: the get resolves and initState assigns this.preferences
initStateResume ==
    /\ ops # <<>>
    /\ Head(ops).op = "get"
    /\ preferences' = orDefault(stored)
    /\ ops' = Tail(ops)
    /\ loadState' = "done"
    /\ UNCHANGED <<hasState, stored, nInv, response, lastCall, mutated, rejected>>

\* putRecord when the put is issued before the scan for disliked movies
putRecordBeforeMovies(before, after) ==
    [after EXCEPT !.dislikedMovies = before.dislikedMovies]

\* putRecord that hands storage the record the handler started from
putRecordStale(before, after) == before

\* line 149: the value handed to storage.put is this.preferences as it is
\* after both scans; `before` is the record the handler started from
putRecord(before, after) == after

\* lines 51-77 with 113-151: the handler of recommendMovies up to the await of
\* the put, or to its return when updatePreferences issues no put
recommendMovies(query) ==
    /\ lastCall' = <<"recommendMovies", query>>
    /\ nInv < MaxInv
    /\ pendingPuts < MaxPending
    /\ nInv' = nInv + 1
    /\ LET r == updatePreferencesScan(query, preferences)
       IN  /\ preferences' = r.preferences
           /\ mutated' = (mutated \/ r.preferencesUpdated)
           /\ IF r.preferencesUpdated /\ hasState
              THEN /\ ops' = Append(ops, putOp(putRecord(preferences, r.preferences),
                                           "recommendMovies", query))
                   /\ UNCHANGED response
              ELSE /\ response' = recommendResponse(query, r.preferences)
                   /\ UNCHANGED ops
    /\ UNCHANGED <<hasState, stored, loadState, rejected>>

\* shouldPush that records a liked movie too
shouldPushIgnoresLiked(liked, dislikedMovies, movieLower) ==
    ~arrayIncludes(dislikedMovies, movieLower)

\* shouldPush without the test that the title is not yet recorded
shouldPushNoCheck(liked, dislikedMovies, movieLower) == ~liked

\* lines 88 and 91: the conditions under which movieFeedback pushes the title
shouldPush(liked, dislikedMovies, movieLower) ==
    ~liked /\ ~arrayIncludes(dislikedMovies, movieLower)

\* lowerTitle that records the title as it was given
lowerTitleVerbatim(movie) == movie

\* line 90: const movieLower = movie.toLowerCase()
lowerTitle(movie) == toLowerCase(movie)

\* lines 87-108: the handler of movieFeedback up to the await of the put, or
\* to its return when no put is issued
movieFeedback(movie, liked) ==
    /\ lastCall' = <<"movieFeedback", movie, liked>>
    /\ nInv < MaxInv
    /\ pendingPuts < MaxPending
    /\ nInv' = nInv + 1
    /\ LET movieLower == lowerTitle(movie)
           push == shouldPush(liked, preferences.dislikedMovies, movieLower)
           after == IF push
                    THEN [preferences EXCEPT !.dislikedMovies = Append(@, movieLower)]
                    ELSE preferences
       IN  /\ preferences' = after
           /\ mutated' = (mutated \/ push)
           /\ IF push /\ hasState
              THEN /\ ops' = Append(ops, putOp(after, "movieFeedback", movie))
                   /\ UNCHANGED response
              ELSE /\ response' = feedbackResponse(movie, liked)
                   /\ UNCHANGED ops
    /\ UNCHANGED <<hasState, stored, loadState, rejected>>

\* lines 95 and 149 resolved: the record is written and the awaiting handler
\* runs to its return (lines 56-77 or 100-107)
putResume ==
    /\ ops # <<>>
    /\ Head(ops).op = "put"
    /\ stored' = Record(Head(ops).value)
    /\ ops' = Tail(ops)
    /\ response' = IF Head(ops).tool = "recommendMovies"
                   THEN recommendResponse(Head(ops).arg, preferences)
                   ELSE feedbackResponse(Head(ops).arg, FALSE)
    /\ UNCHANGED <<hasState, preferences, loadState, nInv, lastCall, mutated, rejected>>

Next ==
    \/ initStateResume
    \/ \E query \in Queries : recommendMovies(query)
    \/ \E movie \in FeedbackMovies, liked \in BOOLEAN : movieFeedback(movie, liked)
    \/ putResume

Spec == Init /\ [][Next]_vars

\* The agent when the runtime delivers no request while the get issued by the
\* constructor is pending: the handlers of lines 51 and 87 run after line 37.
NextGated ==
    \/ initStateResume
    \/ /\ loadState # "pending"
       /\ \E query \in Queries : recommendMovies(query)
    \/ /\ loadState # "pending"
       /\ \E movie \in FeedbackMovies, liked \in BOOLEAN : movieFeedback(movie, liked)
    \/ putResume

SpecGated == Init /\ [][NextGated]_vars

\* lines 95 and 149 rejected: nothing is written, the await throws and the
\* handler ends without running the lines after it
putFails ==
    /\ ops # <<>>
    /\ Head(ops).op = "put"
    /\ ops' = Tail(ops)
    /\ response' = PutRejected
    /\ rejected' = Head(ops)
    /\ UNCHANGED <<hasState, preferences, stored, loadState, nInv, lastCall, mutated>>

NextFault ==
    \/ Next
    \/ putFails

SpecFault == Init /\ [][NextFault]_vars

---------------------------------------------------------------------------
(* Properties *)

count(list, x) == Cardinality({i \in 1..Len(list) : list[i] = x})

noDuplicates(list) == \A i, j \in 1..Len(list) : i # j => list[i] # list[j]

\* the query, matched without regard to case, holds one of the gating phrases
hasDislikePhrase(query) ==
    \E i \in 1..Len(dislikePhrases) : includes(toLowerCase(query), dislikePhrases[i])

\* the queries that hold no gating phrase
ungatedQueries == {query \in Queries : ~hasDislikePhrase(query)}

\* for each query, the movie keywords it holds behind a gating phrase
gatedKeywords ==
    [query \in Queries |->
        {movies[i] : i \in {j \in 1..Len(movies) :
            hasDislikePhrase(query) /\ includes(toLowerCase(query), movies[j])}}]

\* C1: in the stateful variant no recommendMovies invocation and no
\* movieFeedback invocation with liked = false runs while the load started by
\* the constructor is still pending, so the load never assigns over
\* preferences that an invocation has changed.
C1_LoadAwaitedBeforeUse ==
    [][ /\ loadState = "pending" =>
              /\ \A query \in Queries : ~recommendMovies(query)
              /\ \A movie \in FeedbackMovies : ~movieFeedback(movie, FALSE)
        /\ initStateResume => ~mutated ]_vars

\* C2: in the stateful variant, whenever no invocation is in progress and at
\* least one mutation has happened, the stored record equals the in-memory
\* preferences.
C2_StoredEqualsMemory ==
    (hasState /\ pendingPuts = 0 /\ mutated) => stored = Record(preferences)

\* C3: in every reachable state no title returned by getRecommendations holds,
\* lower-cased, a string of dislikedMovies as a substring.
C3_NoDislikedRecommended ==
    LET recs == getRecommendations(preferences)
    IN  \A i \in 1..Len(recs) : \A j \in 1..Len(preferences.dislikedMovies) :
            ~includes(toLowerCase(recs[i]), preferences.dislikedMovies[j])

\* C3 witness: the filter has removed a title and titles are still returned
C3_Witness ==
    /\ Len(filteredList(preferences)) < Len(workingList(preferences))
    /\ Len(getRecommendations(preferences)) > 0
    /\ includes(response, "Based on your request")

\* positions of the filtered working list that hold a title for the first time
firstOccurrences(list) == {i \in 1..Len(list) : \A j \in 1..(i - 1) : list[j] # list[i]}

\* C4: getRecommendations returns at most 5 titles, none twice, and they are
\* the first 5 distinct titles of the filtered working list, in its order.
C4_FirstFiveDistinct ==
    LET list == filteredList(preferences)
        recs == getRecommendations(preferences)
        first == firstOccurrences(list)
    IN  /\ Len(recs) <= 5
        /\ noDuplicates(recs)
        /\ Len(recs) = IF Cardinality(first) < 5 THEN Cardinality(first) ELSE 5
        /\ \A k \in 1..Len(recs) :
              \E i \in first : /\ list[i] = recs[k]
                               /\ Cardinality({j \in first : j < i}) = k - 1

\* C4 witness: more than 5 distinct titles pass the filter and 5 are returned
C4_Witness ==
    /\ Cardinality(firstOccurrences(filteredList(preferences))) > 5
    /\ Len(getRecommendations(preferences)) = 5
    /\ includes(response, "5. ")

\* C5: in every reachable state genres and dislikedMovies hold no entry twice,
\* in memory and in the stored record.
C5_NoDuplicates ==
    /\ noDuplicates(preferences.genres)
    /\ noDuplicates(preferences.dislikedMovies)
    /\ stored # NoRecord =>
          /\ noDuplicates(stored[1].genres)
          /\ noDuplicates(stored[1].dislikedMovies)

\* C5 witness: a query naming a recorded genre was answered, and the record,
\* with that genre once, is the stored one
C5_Witness ==
    /\ nInv >= 2
    /\ mutated
    /\ count(preferences.genres, "action") = 1
    /\ response = recommendResponse("I love action movies", preferences)
    /\ stored = Record(preferences)

C7_LoadDefaultsToEmpty ==
    [][ initStateResume =>
            /\ loadState' = "done"
            /\ stored = NoRecord => preferences' = emptyPreferences
            /\ stored # NoRecord => preferences' = stored[1] ]_vars

\* C7 witness: the load has completed on a storage without a record
C7_Witness ==
    /\ loadState = "done"
    /\ stored = NoRecord
    /\ preferences = emptyPreferences

\* C8: movieFeedback with liked = true changes neither the preferences nor the
\* stored record, issues no put, and returns the acknowledgement naming the title.
C8_LikedMutatesNothing ==
    [][ \A movie \in FeedbackMovies : movieFeedback(movie, TRUE) =>
            /\ UNCHANGED <<preferences, stored, ops>>
            /\ response' = "Great! I'll recommend more movies like \"" \o movie
                           \o "\" in the future." ]_vars

\* C8 witness: a liked feedback was acknowledged on non-empty preferences
C8_Witness ==
    /\ includes(response, "Great!")
    /\ Len(preferences.dislikedMovies) > 0
    /\ Len(preferences.genres) > 0

\* C9: a recommendMovies query without a gating phrase leaves dislikedMovies
\* unchanged, also when it holds a movie keyword: a step that changes
\* dislikedMovies is no recommendMovies step of such a query.
C9_DislikeGated ==
    [][ \A query \in ungatedQueries :
            \/ preferences'.dislikedMovies = preferences.dislikedMovies
            \/ ~recommendMovies(query) ]_vars

\* C9 witness: a query with two movie keywords and no gating phrase was answered
C9_Witness ==
    /\ response = recommendResponse("Inception and Star Wars", preferences)
    /\ ~arrayIncludes(preferences.dislikedMovies, "inception")
    /\ ~arrayIncludes(preferences.dislikedMovies, "star wars")

entries(prefs) == Len(prefs.genres) + Len(prefs.dislikedMovies)

getsInFlight == Len(SelectSeq(ops, LAMBDA o : o.op = "get"))

\* C11: in the stateful variant the only get is the one the constructor issues;
\* a tool invocation issues exactly one put when it has added an entry and none
\* when it has not, and nothing else issues a storage operation.
C11_StorageTouchedTwice ==
    [][ hasState =>
          /\ getsInFlight = (IF loadState = "pending" THEN 1 ELSE 0)
          /\ getsInFlight' = (IF loadState' = "pending" THEN 1 ELSE 0)
          /\ loadState # "pending" => loadState' # "pending"
          /\ nInv' = nInv => Len(ops') <= Len(ops)
          /\ nInv' # nInv =>
                IF entries(preferences') > entries(preferences)
                THEN /\ Len(ops') = Len(ops) + 1
                     /\ SubSeq(ops', 1, Len(ops)) = ops
                     /\ ops'[Len(ops')].op = "put"
                ELSE ops' = ops ]_vars

\* C11 witness: an invocation that added an entry has one put in flight and a
\* later invocation that added nothing has returned without issuing one
C11_Witness ==
    /\ hasState
    /\ loadState = "done"
    /\ Len(ops) = 1
    /\ ops[1].op = "put"
    /\ lastCall = <<"recommendMovies", "Inception and Star Wars">>
    /\ response = recommendResponse("Inception and Star Wars", preferences)

\* the set of elements of a list
elements(list) == {list[i] : i \in 1..Len(list)}

\* for each query, the genres it names
namedGenres ==
    [query \in Queries |->
        {genres[i] : i \in {j \in 1..Len(genres) : includes(toLowerCase(query), genres[j])}}]

\* C12: the put of an invocation carries the record with every addition of that
\* invocation, and the stored record changes only to the value of a put in
\* flight; so whatever happens to the handler at its await, storage holds a
\* record from before the call or one with all its additions.
C12_NoPartialRecord ==
    [][ /\ \A query \in Queries : (recommendMovies(query) /\ ops' # ops) =>
              LET put == ops'[Len(ops')]
              IN  /\ put.op = "put"
                  /\ put.value = preferences'
                  /\ namedGenres[query] \subseteq elements(put.value.genres)
                  /\ gatedKeywords[query] \subseteq elements(put.value.dislikedMovies)
        /\ \A movie \in FeedbackMovies : (movieFeedback(movie, FALSE) /\ ops' # ops) =>
              LET put == ops'[Len(ops')]
              IN  /\ put.op = "put"
                  /\ put.value = preferences'
                  /\ toLowerCase(movie) \in elements(put.value.dislikedMovies)
        /\ stored' # stored =>
              /\ ops # <<>>
              /\ Head(ops).op = "put"
              /\ stored' = Record(Head(ops).value) ]_vars

\* C12 witness: the put of a query with three additions is in flight with all
\* three, and storage still holds no record
C12_Witness ==
    /\ loadState = "done"
    /\ stored = NoRecord
    /\ Len(ops) = 1
    /\ ops[1].op = "put"
    /\ ops[1].arg = "dramatic sci-fi, but I didn't enjoy Inception"
    /\ ops[1].value = [genres |-> <<"drama", "sci-fi">>, dislikedMovies |-> <<"inception">>]

returnsRecommendation(query) ==
    \/ recommendMovies(query) /\ ops' = ops
    \/ /\ ops # <<>>
       /\ Head(ops).op = "put"
       /\ Head(ops).tool = "recommendMovies"
       /\ Head(ops).arg = query
       /\ putResume

\* C14: the response of recommendMovies(query) is computed from preferences
\* that hold the genres the query names and the movie keywords it names behind
\* a gating phrase.
C14_ExtractorBeforeGenerator ==
    [][ \A query \in Queries : returnsRecommendation(query) =>
            /\ namedGenres[query] \subseteq elements(preferences'.genres)
            /\ gatedKeywords[query] \subseteq elements(preferences'.dislikedMovies)
            /\ response' = recommendResponse(query, preferences') ]_vars

\* the catalog titles of the recorded genres
catalogOf(gs) == UNION {elements(moviesByGenre(gs[i])) : i \in 1..Len(gs)}

\* C16: the working list is the default list when no genre is recorded, and
\* otherwise the recorded genres' 4-title lists in recording order, with no
\* title of the default list added even when fewer than 5 remain; [action]
\* alone yields the four action titles and empty preferences the default list.
C16_WorkingListByGenres ==
    LET gs == preferences.genres
        working == workingList(preferences)
        returned == getRecommendations(preferences)
    IN  /\ gs = <<>> =>
              working = <<"The Shawshank Redemption", "The Godfather", "Inception",
                          "Parasite", "The Dark Knight">>
        /\ gs # <<>> =>
              /\ Len(working) = 4 * Len(gs)
              /\ \A i \in 1..Len(gs), j \in 1..4 :
                     working[4 * (i - 1) + j] = moviesByGenre(gs[i])[j]
              /\ elements(returned) \subseteq catalogOf(gs)
              /\ Len(returned) <= Len(working)
        /\ preferences = [genres |-> <<"action">>, dislikedMovies |-> <<>>] =>
              returned = <<"Die Hard", "The Dark Knight", "John Wick", "Mission Impossible">>
        /\ preferences = emptyPreferences => returned = working

\* one genre is recorded and a dislike leaves 3 of its 4 titles: the call
\* returns those 3 and nothing from the default list
C16_Witness ==
    /\ preferences = [genres |-> <<"drama">>, dislikedMovies |-> <<"godfather">>]
    /\ lastCall = <<"recommendMovies", "">>
    /\ getRecommendations(preferences) =
           <<"The Shawshank Redemption", "Forrest Gump", "The Social Network">>
    /\ response = recommendResponse("", preferences)

\* C17: no step removes an entry of the in-memory preferences: every genre and
\* every disliked string present before a step is present after it, and the
\* record does not get smaller.
C17_PreferencesOnlyGrow ==
    [][ /\ elements(preferences.genres) \subseteq elements(preferences'.genres)
        /\ elements(preferences.dislikedMovies) \subseteq elements(preferences'.dislikedMovies)
        /\ entries(preferences') >= entries(preferences) ]_vars

\* C18: with every invocation started after the load, overlapping invocations
\* lose no update: every put in flight carries entries that are all in memory,
\* a later put carries every entry of an earlier one, the last put issued
\* carries the whole in-memory record, and once no invocation is suspended the
\* stored record equals the in-memory preferences.
C18_NoLostUpdate ==
    (hasState /\ loadState = "done") =>
        /\ \A i \in 1..Len(ops) :
               /\ ops[i].op = "put"
               /\ elements(ops[i].value.genres) \subseteq elements(preferences.genres)
               /\ elements(ops[i].value.dislikedMovies)
                      \subseteq elements(preferences.dislikedMovies)
               /\ \A j \in 1..(i - 1) :
                      /\ elements(ops[j].value.genres)
                             \subseteq elements(ops[i].value.genres)
                      /\ elements(ops[j].value.dislikedMovies)
                             \subseteq elements(ops[i].value.dislikedMovies)
        /\ ops # <<>> => ops[Len(ops)].value = preferences
        /\ ops = <<>> =>
               \/ stored = Record(preferences)
               \/ stored = NoRecord /\ preferences = emptyPreferences /\ ~mutated

\* a recommendMovies and a movieFeedback invocation are both suspended at
\* their puts after the load: the first put lacks what the second one added
C18_Witness ==
    /\ hasState
    /\ loadState = "done"
    /\ Len(ops) = 2
    /\ ops[1].tool = "recommendMovies"
    /\ ops[2].tool = "movieFeedback"
    /\ ops[1].value # preferences
    /\ ops[2].value = preferences
    /\ stored # Record(preferences)

\* C19: when a put is rejected nothing is rolled back and nothing is written:
\* the entries of the rejected record stay in memory and storage does not hold
\* that record; repeating the invocation whose put was rejected issues no
\* put; storage changes only when a put resolves, and a put is issued only by
\* an invocation that added a new entry.
C19_FailedPutNotRetried ==
    [][ /\ putFails =>
              /\ preferences' = preferences
              /\ stored' = stored
              /\ elements(Head(ops).value.genres) \subseteq elements(preferences'.genres)
              /\ elements(Head(ops).value.dislikedMovies)
                     \subseteq elements(preferences'.dislikedMovies)
              /\ stored' # Record(Head(ops).value)
        /\ (/\ rejected # <<>>
            /\ nInv' # nInv
            /\ lastCall' = (IF rejected.tool = "recommendMovies"
                            THEN <<"recommendMovies", rejected.arg>>
                            ELSE <<"movieFeedback", rejected.arg, FALSE>>))
              => /\ ops' = ops
                 /\ preferences' = preferences
        /\ Len(ops') > Len(ops) => entries(preferences') > entries(preferences)
        /\ stored' # stored => /\ ops # <<>>
                               /\ Head(ops).op = "put"
                               /\ ops' = Tail(ops) ]_vars

\* C20: movieFeedback("", false) records the empty string; while the empty
\* string is recorded recommend returns the empty list whatever the genres,
\* and no later step removes it, so no later call returns a title.
C20_EmptyTitleSilencesRecommend ==
    [][ /\ (movieFeedback("", FALSE) /\ "" \notin elements(preferences.dislikedMovies)) =>
              preferences'.dislikedMovies = Append(preferences.dislikedMovies, "")
        /\ "" \in elements(preferences'.dislikedMovies) =>
              getRecommendations(preferences') = <<>>
        /\ "" \in elements(preferences.dislikedMovies) =>
              "" \in elements(preferences'.dislikedMovies) ]_vars

===========================================================================
